---- MODULE Spec2Model ----
(***************************************************************************)
(* TSCEChatCompletionClient (autogen_ext.models.tsce): the adapter that    *)
(* routes chat-completion requests through the TSCE harness.               *)
(*                                                                         *)
(* Text is a sequence of one-character strings, so that str.split() can be *)
(* computed.  RequestUsage objects are mutable and shared by reference, so *)
(* they live in a heap and the adapter's fields hold references into it.   *)
(***************************************************************************)
EXTENDS Integers, Sequences, FiniteSets, TLC

\* ---------------------------------------------------------------- bounds
MaxMsgs == 3          \* longest message sequence given to the normalizer
MaxContentLen == 3    \* longest harness reply text
MaxCalls == 2         \* create / create_stream calls started on one instance

\* ------------------------------------------------------------------ text
Whitespace == {" ", "\n"}
Chars == {"a", " "}

StrsUpTo(n) == UNION {[1..k -> Chars] : k \in 0..n}

\* str.split() with no separator: runs of whitespace separate the tokens,
\* leading and trailing whitespace produce no empty token.
RECURSIVE splitAcc(_, _, _)
splitAcc(s, cur, acc) ==
  IF s = <<>>
  THEN IF cur = <<>> THEN acc ELSE Append(acc, cur)
  ELSE IF Head(s) \in Whitespace
       THEN splitAcc(Tail(s), <<>>, IF cur = <<>> THEN acc ELSE Append(acc, cur))
       ELSE splitAcc(Tail(s), Append(cur, Head(s)), acc)

\* a separator-based split (str.split(" ")): every single space separates,
\* so empty tokens appear and "\n" is not a separator
RECURSIVE splitSepAcc(_, _, _)
splitSepAcc(s, cur, acc) ==
  IF s = <<>>
  THEN Append(acc, cur)
  ELSE IF Head(s) = " "
       THEN splitSepAcc(Tail(s), <<>>, Append(acc, cur))
       ELSE splitSepAcc(Tail(s), Append(cur, Head(s)), acc)

split_sep(s) == splitSepAcc(s, <<>>, <<>>)

split(s) == splitAcc(s, <<>>, <<>>)

\* ------------------------------------------------------------- messages
\* content is a str or something else (a list of text/image items, a list
\* of function calls); isinstance(content, str) is the field isstr
Str(v) == [isstr |-> TRUE, v |-> v]
NonStr(v) == [isstr |-> FALSE, v |-> v]

TextA == <<"a">>
TextB == <<"a", " ">>
Texts == {TextA, TextB}

SystemMessage(c) == [type |-> "SystemMessage", content |-> c]
UserMessage(c) == [type |-> "UserMessage", content |-> c]
AssistantMessage(c) == [type |-> "AssistantMessage", content |-> c]
FunctionExecutionResultMessage(c) == [type |-> "FunctionExecutionResultMessage", content |-> c]

Messages ==
  {SystemMessage(Str(t)) : t \in Texts}
  \cup {UserMessage(Str(t)) : t \in Texts} \cup {UserMessage(NonStr(TextA))}
  \cup {AssistantMessage(Str(t)) : t \in Texts} \cup {AssistantMessage(NonStr(TextA))}
  \cup {FunctionExecutionResultMessage(NonStr(TextA))}

MessageSeqs == UNION {[1..k -> Messages] : k \in 0..MaxMsgs}

ChatPair(role, text) == [role |-> role, content |-> text]

\* assistant content handled like user content: "" substituted
ConvertOne_substitute(m) ==
  IF m.type = "SystemMessage" THEN <<ChatPair("system", m.content.v)>>
  ELSE IF m.type = "UserMessage"
  THEN <<ChatPair("user", IF m.content.isstr THEN m.content.v ELSE <<>>)>>
  ELSE IF m.type = "AssistantMessage"
  THEN <<ChatPair("assistant", IF m.content.isstr THEN m.content.v ELSE <<>>)>>
  ELSE <<>>

\* one iteration of the loop of _convert_messages: what it appends to chat
ConvertOne(m) ==
  IF m.type = "SystemMessage" THEN <<ChatPair("system", m.content.v)>>
  ELSE IF m.type = "UserMessage"
  THEN <<ChatPair("user", IF m.content.isstr THEN m.content.v ELSE <<>>)>>
  ELSE IF m.type = "AssistantMessage"
  THEN IF m.content.isstr THEN <<ChatPair("assistant", m.content.v)>> ELSE <<>>
  ELSE <<>>

\* chat.insert(0, ...) in place of chat.append(...)
RECURSIVE _convert_messages_prepend(_)
_convert_messages_prepend(messages) ==
  IF messages = <<>> THEN <<>>
  ELSE _convert_messages_prepend(Tail(messages)) \o ConvertOne(Head(messages))

RECURSIVE _convert_messages(_)
_convert_messages(messages) ==
  IF messages = <<>> THEN <<>>
  ELSE ConvertOne(Head(messages)) \o _convert_messages(Tail(messages))


\* ---------------------------------------------------------------- state
VARIABLES
  _tsce,          \* the harness handle
  _model_info,    \* capability flags
  heap,           \* RequestUsage objects, indexed by reference
  _cur_usage,     \* reference: usage of the last call
  _total_usage,   \* reference: cumulative usage
  created,        \* references of the usage records carried by the results create has built
  harness,        \* the harness as seen from outside: calls made, last argument, last outcome
  outcome,        \* what the last operation gave its caller
  gen,            \* the async generator made by create_stream
  closed,         \* close() has been awaited
  started,        \* create / create_stream calls started
  conv,           \* the normalizer applied to one input
  thr             \* create calls running on threads

vars == <<_tsce, _model_info, heap, _cur_usage, _total_usage, created, harness,
          outcome, gen, closed, started, conv, thr>>

adapter == <<_tsce, _model_info, heap, _cur_usage, _total_usage>>

None == "None"

RequestUsage(p, c) == [prompt_tokens |-> p, completion_tokens |-> c]

CreateResult(content, usage) ==
  [finish_reason |-> "stop", content |-> content, usage |-> usage, cached |-> FALSE]

\* what the harness call can do: reply with a text, or raise
Replies == StrsUpTo(MaxContentLen) \cup {<<"\n", "a">>, <<"a", "\n", "a">>}
Errors == {"TimeoutError", "ValueError"}
HarnessOutcomes ==
  {[ok |-> TRUE, content |-> r, err |-> None] : r \in Replies}
  \cup {[ok |-> FALSE, content |-> <<>>, err |-> e] : e \in Errors}

\* message sequences given to create, create_stream and the token counters
CreateInputs ==
  { <<SystemMessage(Str(TextB)), UserMessage(Str(TextA))>>,
    <<UserMessage(NonStr(TextA)), AssistantMessage(NonStr(TextA)),
      FunctionExecutionResultMessage(NonStr(TextA)), AssistantMessage(Str(TextA))>> }

NoGen == [pc |-> "none", messages |-> <<>>, result |-> <<>>,
          i |-> 0, chunks |-> <<>>, final |-> <<>>]
IdleConv == [messages |-> <<>>, chat |-> <<>>, done |-> FALSE]
NoThreads == <<>>

\* __init__
InitAdapter ==
  /\ _tsce = "TSCEChat"
  /\ _model_info = [vision |-> FALSE, function_calling |-> FALSE, json_output |-> FALSE,
                    family |-> "unknown", structured_output |-> FALSE]
  /\ heap = <<RequestUsage(0, 0), RequestUsage(0, 0)>>
  /\ _cur_usage = 1
  /\ _total_usage = 2
  /\ created = <<>>
  /\ harness = [calls |-> 0, arg |-> <<>>, last |-> [ok |-> TRUE, content |-> <<>>, err |-> None]]
  /\ outcome = [op |-> "__init__", status |-> "return", value |-> None]
  /\ gen = NoGen
  /\ closed = FALSE
  /\ started = 0

Init ==
  /\ InitAdapter
  /\ conv = IdleConv
  /\ thr = NoThreads

\* ---------------------------------------------------------------- create
\* self._cur_usage.completion_tokens = len(tokens): the record is reused
InstallCurUsage_inplace(h, cur, n) ==
  [heap |-> [h EXCEPT ![cur] = RequestUsage(0, n)], cur |-> cur]

\* self._cur_usage = RequestUsage(prompt_tokens=0, completion_tokens=len(tokens))
InstallCurUsage(h, cur, n) ==
  [heap |-> Append(h, RequestUsage(0, n)), cur |-> Len(h) + 1]

\* self._total_usage.x = self._cur_usage.x
AddToTotal_assign(h, total, cur) ==
  [h EXCEPT ![total] = RequestUsage(h[cur].prompt_tokens, h[cur].completion_tokens)]

\* self._total_usage.x += self._cur_usage.x, for both counters
AddToTotal(h, total, cur) ==
  [h EXCEPT ![total] = RequestUsage(@.prompt_tokens + h[cur].prompt_tokens,
                                    @.completion_tokens + h[cur].completion_tokens)]

\* the usage is installed before the harness is called
create_usage_first(messages, h) ==
  LET inst == InstallCurUsage(heap, _cur_usage, Len(split(h.content))) IN
  /\ harness' = [calls |-> harness.calls + 1, arg |-> _convert_messages(messages), last |-> h]
  /\ heap' = IF h.ok THEN AddToTotal(inst.heap, _total_usage, inst.cur) ELSE inst.heap
  /\ _cur_usage' = inst.cur
  /\ created' = IF h.ok THEN Append(created, inst.cur) ELSE created
  /\ UNCHANGED <<_tsce, _model_info, _total_usage>>

\* the body of create, lines 75-81, with h the outcome of the harness call;
\* status and value of the call are createStatus and createValue
create(messages, h) ==
  IF _tsce = None
  THEN UNCHANGED <<adapter, created, harness>>
  ELSE
    /\ harness' = [calls |-> harness.calls + 1, arg |-> _convert_messages(messages), last |-> h]
    /\ IF h.ok
       THEN LET inst == InstallCurUsage(heap, _cur_usage, Len(split(h.content))) IN
            /\ heap' = AddToTotal(inst.heap, _total_usage, inst.cur)
            /\ _cur_usage' = inst.cur
            /\ created' = Append(created, inst.cur)
       ELSE UNCHANGED <<heap, _cur_usage, created>>
    /\ UNCHANGED <<_tsce, _model_info, _total_usage>>

createStatus(h) == IF _tsce # None /\ h.ok THEN "return" ELSE "raise"

\* evaluated in the state after create: the result returned or the fault raised
createValue(h) ==
  IF _tsce = None THEN "TypeError"
  ELSE IF h.ok THEN CreateResult(h.content, _cur_usage') ELSE h.err

Create(messages, h) ==
  /\ started < MaxCalls
  /\ started' = started + 1
  /\ create(messages, h)
  /\ outcome' = [op |-> "create", status |-> createStatus(h), value |-> createValue(h)]
  /\ UNCHANGED <<gen, closed, conv, thr>>


\* --------------------------------------------------------- create_stream
\* every token is followed by a space, the last one too
Chunk_always_space(tokens, j) == tokens[j] \o <<" ">>

\* lines 106-109: the j-th token (counted from 1) as it is yielded
Chunk(tokens, j) ==
  IF j - 1 < Len(tokens) - 1 THEN tokens[j] \o <<" ">> ELSE tokens[j]

\* calling create_stream only builds the generator: no line of the body runs
StreamOpen(messages) ==
  /\ started < MaxCalls
  /\ started' = started + 1
  /\ gen' = [NoGen EXCEPT !.pc = "start", !.messages = messages]
  /\ outcome' = [op |-> "create_stream", status |-> "return", value |-> "async_generator"]
  /\ UNCHANGED <<adapter, created, harness, closed, conv, thr>>

\* the generator g, holding its result and having yielded g.i tokens, runs
\* to its next yield (lines 105-110)
Advance(g) ==
  LET tokens == split(g.result.content) IN
  IF g.i < Len(tokens)
  THEN /\ gen' = [g EXCEPT !.pc = "loop", !.i = g.i + 1,
                           !.chunks = Append(g.chunks, Chunk(tokens, g.i + 1))]
       /\ outcome' = [op |-> "__anext__", status |-> "yield", value |-> Chunk(tokens, g.i + 1)]
  ELSE /\ gen' = [g EXCEPT !.pc = "final", !.final = Append(g.final, g.result)]
       /\ outcome' = [op |-> "__anext__", status |-> "yield", value |-> g.result]

\* first __anext__: line 98 awaits create, then the body runs to its first yield;
\* the arguments are not read again after line 104
StreamStart(h) ==
  /\ gen.pc = "start"
  /\ create(gen.messages, h)
  /\ IF createStatus(h) = "raise"
     THEN /\ gen' = [gen EXCEPT !.pc = "closed", !.messages = <<>>]
          /\ outcome' = [op |-> "__anext__", status |-> "raise", value |-> createValue(h)]
     ELSE Advance([gen EXCEPT !.result = createValue(h), !.messages = <<>>])
  /\ UNCHANGED <<closed, started, conv, thr>>

\* a later __anext__ while the body is suspended at a yield of the loop
StreamNext ==
  /\ gen.pc = "loop"
  /\ Advance(gen)
  /\ UNCHANGED <<adapter, created, harness, closed, started, conv, thr>>

\* __anext__ after the result was yielded, or on a finished generator
StreamStop ==
  /\ gen.pc \in {"final", "closed"}
  /\ gen' = [gen EXCEPT !.pc = "closed"]
  /\ outcome' = [op |-> "__anext__", status |-> "raise", value |-> "StopAsyncIteration"]
  /\ UNCHANGED <<adapter, created, harness, closed, started, conv, thr>>

\* ------------------------------------------------------------- accessors
\* a close that drops the harness handle
close_release ==
  /\ _tsce' = None
  /\ closed' = TRUE
  /\ outcome' = [op |-> "close", status |-> "return", value |-> None]
  /\ UNCHANGED <<_model_info, heap, _cur_usage, _total_usage, created, harness, gen,
                 started, conv, thr>>

close ==
  /\ closed' = TRUE
  /\ outcome' = [op |-> "close", status |-> "return", value |-> None]
  /\ UNCHANGED <<adapter, created, harness, gen, started, conv, thr>>

Return(op, value) ==
  /\ outcome' = [op |-> op, status |-> "return", value |-> value]
  /\ UNCHANGED <<adapter, created, harness, gen, closed, started, conv, thr>>

actual_usage == Return("actual_usage", _cur_usage)

total_usage == Return("total_usage", _total_usage)

count_tokens(messages) == Return("count_tokens", 0)

remaining_tokens(messages) == Return("remaining_tokens", 0)

model_info == Return("model_info", _model_info)

capabilities == Return("capabilities", _model_info)

Accessors == {"close", "actual_usage", "total_usage", "count_tokens", "remaining_tokens",
              "model_info", "capabilities"}

\* ---------------------------------------------------------- specification
\* create and create_stream, the generator consumed step by step
Next ==
  \/ \E messages \in CreateInputs, h \in HarnessOutcomes : Create(messages, h)
  \/ \E messages \in CreateInputs : StreamOpen(messages)
  \/ \E h \in HarnessOutcomes : StreamStart(h)
  \/ StreamNext
  \/ StreamStop

Spec == Init /\ [][Next]_vars

\* create and the accessors
NextAccessors ==
  \/ \E messages \in CreateInputs, h \in HarnessOutcomes : Create(messages, h)
  \/ close
  \/ actual_usage
  \/ total_usage
  \/ \E messages \in CreateInputs : count_tokens(messages)
  \/ \E messages \in CreateInputs : remaining_tokens(messages)
  \/ model_info
  \/ capabilities

SpecAccessors == Init /\ [][NextAccessors]_vars


\* ------------------------------------------------- the normalizer alone
InitConvert ==
  /\ InitAdapter
  /\ conv \in {[messages |-> ms, chat |-> <<>>, done |-> FALSE] : ms \in MessageSeqs}
  /\ thr = NoThreads

Convert ==
  /\ ~conv.done
  /\ conv' = [conv EXCEPT !.chat = _convert_messages(conv.messages), !.done = TRUE]
  /\ UNCHANGED <<adapter, created, harness, outcome, gen, closed, started, thr>>

NextConvert == Convert

SpecConvert == InitConvert /\ [][NextConvert]_vars

\* --------------------------------------- create on two threads at once
\* Each thread runs create on the same instance.  The harness call is one
\* step; every load and store of an attribute of the shared instance after
\* it is a step of its own, in the order the interpreter performs them:
\*   L79        self._cur_usage = RequestUsage(...)
\*   L80, L81   x = self._total_usage.c ; self._total_usage.c = x + self._cur_usage.c
\*   L82        return CreateResult(..., usage=self._cur_usage, ...)
Threads == {1, 2}

NewThread == [pc |-> "L75", content |-> <<>>, ntokens |-> 0, loaded |-> 0,
              result |-> <<>>, err |-> None]

InRegion(t) == t.pc \in {"L80_load", "L80_store", "L81_load", "L81_store"}

InitThreads ==
  /\ InitAdapter
  /\ conv = IdleConv
  /\ thr = [t |-> [i \in Threads |-> NewThread], overlapped |-> FALSE]

\* thr with thread i replaced by nt; overlapped records that two calls were
\* at the same time between installing their usage and finishing the totals
ThrStep(i, nt) ==
  LET t2 == [thr.t EXCEPT ![i] = nt] IN
  thr' = [t |-> t2,
          overlapped |-> thr.overlapped \/ \A j \in Threads : InRegion(t2[j])]

\* the total is re-read when it is stored: the load and the store are one step
StoreTotal_atomic(current, loaded, n) == current + n

\* the value stored by +=: the value loaded before, plus the operand
StoreTotal(current, loaded, n) == loaded + n

\* lines 75-78
ThrCall(i, messages, h) ==
  /\ thr.t[i].pc = "L75"
  /\ harness' = [calls |-> harness.calls + 1, arg |-> _convert_messages(messages), last |-> h]
  /\ IF h.ok
     THEN ThrStep(i, [thr.t[i] EXCEPT !.pc = "L79", !.content = h.content,
                                      !.ntokens = Len(split(h.content))])
     ELSE ThrStep(i, [thr.t[i] EXCEPT !.pc = "raised", !.err = h.err])
  /\ UNCHANGED <<adapter, created, outcome, gen, closed, started, conv>>

\* line 79
ThrInstall(i) ==
  /\ thr.t[i].pc = "L79"
  /\ LET inst == InstallCurUsage(heap, _cur_usage, thr.t[i].ntokens) IN
     /\ heap' = inst.heap
     /\ _cur_usage' = inst.cur
  /\ ThrStep(i, [thr.t[i] EXCEPT !.pc = "L80_load"])
  /\ UNCHANGED <<_tsce, _model_info, _total_usage, created, harness, outcome, gen,
                 closed, started, conv>>

\* lines 80 and 81, the load of the total counter
ThrLoad(i) ==
  /\ thr.t[i].pc \in {"L80_load", "L81_load"}
  /\ ThrStep(i, [thr.t[i] EXCEPT
        !.pc = IF @ = "L80_load" THEN "L80_store" ELSE "L81_store",
        !.loaded = IF thr.t[i].pc = "L80_load" THEN heap[_total_usage].prompt_tokens
                                     ELSE heap[_total_usage].completion_tokens])
  /\ UNCHANGED <<adapter, created, harness, outcome, gen, closed, started, conv>>

\* lines 80 and 81, the load of the current counter, the addition and the store
ThrStore(i) ==
  /\ thr.t[i].pc \in {"L80_store", "L81_store"}
  /\ heap' = IF thr.t[i].pc = "L80_store"
             THEN [heap EXCEPT ![_total_usage].prompt_tokens =
                      StoreTotal(@, thr.t[i].loaded, heap[_cur_usage].prompt_tokens)]
             ELSE [heap EXCEPT ![_total_usage].completion_tokens =
                      StoreTotal(@, thr.t[i].loaded, heap[_cur_usage].completion_tokens)]
  /\ ThrStep(i, [thr.t[i] EXCEPT !.pc = IF @ = "L80_store" THEN "L81_load" ELSE "L82"])
  /\ UNCHANGED <<_tsce, _model_info, _cur_usage, _total_usage, created, harness, outcome,
                 gen, closed, started, conv>>

\* lines 82-87
ThrReturn(i) ==
  /\ thr.t[i].pc = "L82"
  /\ created' = Append(created, _cur_usage)
  /\ ThrStep(i, [thr.t[i] EXCEPT !.pc = "returned",
                                 !.result = CreateResult(thr.t[i].content, _cur_usage)])
  /\ UNCHANGED <<adapter, harness, outcome, gen, closed, started, conv>>

NextThreads ==
  \E i \in Threads :
    \/ \E messages \in CreateInputs, h \in HarnessOutcomes : ThrCall(i, messages, h)
    \/ ThrInstall(i)
    \/ ThrLoad(i)
    \/ ThrStore(i)
    \/ ThrReturn(i)

SpecThreads == InitThreads /\ [][NextThreads]_vars


\* ================================================================ claims
CurUsage == heap[_cur_usage]
TotalUsage == heap[_total_usage]

\* whitespace-separated tokens of s, counted at their first characters
CountTokens(s) ==
  Cardinality({i \in 1..Len(s) : s[i] \notin Whitespace /\ (i = 1 \/ s[i - 1] \in Whitespace)})

RECURSIVE Concat(_)
Concat(ss) == IF ss = <<>> THEN <<>> ELSE Head(ss) \o Concat(Tail(ss))

RECURSIVE SumCompletion(_)
SumCompletion(refs) ==
  IF refs = <<>> THEN 0 ELSE heap[Head(refs)].completion_tokens + SumCompletion(Tail(refs))

RECURSIVE SumPrompt(_)
SumPrompt(refs) ==
  IF refs = <<>> THEN 0 ELSE heap[Head(refs)].prompt_tokens + SumPrompt(Tail(refs))

HasType(ms, type) == \E i \in 1..Len(ms) : ms[i].type = type
HasNonStr(ms, type) == \E i \in 1..Len(ms) : ms[i].type = type /\ ~ms[i].content.isstr

\* ---- C1
ComesFrom(pair, m) ==
  \/ m.type = "SystemMessage" /\ pair.role = "system" /\ pair.content = m.content.v
  \/ m.type = "UserMessage" /\ pair.role = "user" /\ pair.content \in {m.content.v, <<>>}
  \/ m.type = "AssistantMessage" /\ pair.role = "assistant" /\ pair.content = m.content.v

\* C1: the output of _convert_messages is an order-preserving image of the
\* input: there is a strictly increasing map from the pairs to the messages
\* they come from, which hits every system and every user message (each
\* exactly once, the map being injective) and no tool-result message.
C1_OrderPreserved ==
  conv.done =>
    \E f \in [1..Len(conv.chat) -> 1..Len(conv.messages)] :
      /\ \A j, k \in 1..Len(conv.chat) : j < k => f[j] < f[k]
      /\ \A j \in 1..Len(conv.chat) : ComesFrom(conv.chat[j], conv.messages[f[j]])
      /\ \A i \in 1..Len(conv.messages) :
           /\ conv.messages[i].type \in {"SystemMessage", "UserMessage"}
                => \E j \in 1..Len(conv.chat) : f[j] = i
           /\ conv.messages[i].type = "FunctionExecutionResultMessage"
                => \A j \in 1..Len(conv.chat) : f[j] # i

C1_Witness ==
  /\ conv.done
  /\ Len(conv.messages) = 3
  /\ conv.messages[2].type = "FunctionExecutionResultMessage"
  /\ Len(conv.chat) = 2
  /\ conv.chat[1].role = "user"
  /\ conv.chat[2].role = "system"

\* ---- C2
Survives(m) ==
  /\ m.type # "FunctionExecutionResultMessage"
  /\ ~(m.type = "AssistantMessage" /\ ~m.content.isstr)

ExpectedPair(m) ==
  ChatPair(CASE m.type = "SystemMessage" -> "system"
             [] m.type = "UserMessage" -> "user"
             [] m.type = "AssistantMessage" -> "assistant",
           IF m.content.isstr THEN m.content.v ELSE <<>>)

\* C2: the output is, pair by pair, the input without its tool results and
\* its non-string assistant messages: a non-string user message gives the
\* pair ("user", ""), every other surviving message its content verbatim;
\* an input with a non-string assistant message gives a shorter output.
C2_NonStringAsymmetry ==
  conv.done =>
    LET kept == SelectSeq(conv.messages, Survives) IN
    /\ Len(conv.chat) = Len(kept)
    /\ \A j \in 1..Len(kept) : conv.chat[j] = ExpectedPair(kept[j])
    /\ HasNonStr(conv.messages, "AssistantMessage") => Len(conv.chat) < Len(conv.messages)

C2_Witness ==
  /\ conv.done
  /\ HasNonStr(conv.messages, "AssistantMessage")
  /\ HasNonStr(conv.messages, "UserMessage")
  /\ \E j \in 1..Len(conv.chat) : conv.chat[j] = ChatPair("user", <<>>)
  /\ Len(conv.chat) = Len(conv.messages) - 1

\* ---- C3
\* C3: a create that returns gives the harness reply text unchanged, finish
\* reason "stop", cached false, 0 prompt tokens and as many completion
\* tokens as the content has whitespace-separated tokens.
C3_CreateResult ==
  (outcome.op = "create" /\ outcome.status = "return") =>
    /\ harness.last.ok
    /\ outcome.value.content = harness.last.content
    /\ outcome.value.finish_reason = "stop"
    /\ outcome.value.cached = FALSE
    /\ heap[outcome.value.usage].prompt_tokens = 0
    /\ heap[outcome.value.usage].completion_tokens = CountTokens(outcome.value.content)

C3_Witness ==
  /\ outcome.op = "create"
  /\ outcome.status = "return"
  /\ outcome.value.content = <<" ", "a", " ">>
  /\ heap[outcome.value.usage].completion_tokens = 1

\* ---- C4
\* C4: the total usage is the component-wise sum of the usages of the
\* results built so far (zero at first), no step decreases it, and only a
\* step that runs create (create itself, or the first step of a stream)
\* changes it.
C4_TotalIsSum ==
  /\ [](/\ TotalUsage.prompt_tokens = SumPrompt(created)
        /\ TotalUsage.completion_tokens = SumCompletion(created))
  /\ [][/\ _total_usage' = _total_usage
        /\ heap'[_total_usage].prompt_tokens >= TotalUsage.prompt_tokens
        /\ heap'[_total_usage].completion_tokens >= TotalUsage.completion_tokens
        /\ heap'[_total_usage] # TotalUsage =>
             \/ outcome'.op = "create"
             \/ outcome'.op = "__anext__" /\ gen.pc = "start"]_vars

C4_Witness ==
  /\ Len(created) = 2
  /\ gen.final # <<>>
  /\ outcome.op = "create"
  /\ heap[created[1]].completion_tokens = 2
  /\ heap[created[2]].completion_tokens = 1
  /\ TotalUsage.completion_tokens = 3

\* ---- C5
\* C5: once a stream has yielded its result, its text chunks concatenated
\* are the content of the result, and the final element is that result.
C5_StreamReconstructsContent ==
  gen.final # <<>> =>
    /\ Concat(gen.chunks) = gen.result.content
    /\ gen.final = <<gen.result>>

\* ---- C6
\* C6: a step in which the harness call fails invokes the harness once,
\* raises that same fault to the caller, builds no result, emits no chunk
\* and leaves the current and the total usage as they were.
C6_FailurePassThrough ==
  [][(harness'.calls # harness.calls /\ ~harness'.last.ok) =>
       /\ harness'.calls = harness.calls + 1
       /\ outcome'.op \in {"create", "__anext__"}
       /\ outcome'.status = "raise"
       /\ outcome'.value = harness'.last.err
       /\ created' = created
       /\ gen'.chunks = gen.chunks /\ gen'.final = gen.final
       /\ gen'.pc \in {gen.pc, "closed"}
       /\ _cur_usage' = _cur_usage /\ _total_usage' = _total_usage
       /\ heap' = heap]_vars

C6_Witness ==
  /\ outcome.op = "__anext__"
  /\ outcome.status = "raise"
  /\ outcome.value = "ValueError"
  /\ gen.pc = "closed"
  /\ Len(created) = 1
  /\ TotalUsage.completion_tokens = 2
  /\ CurUsage.completion_tokens = 2


\* ---- C7
AllReturned == \A i \in Threads : thr.t[i].pc = "returned"

RECURSIVE SumTokens(_)
SumTokens(S) ==
  IF S = {} THEN 0
  ELSE LET i == CHOOSE j \in S : TRUE IN thr.t[i].ntokens + SumTokens(S \ {i})

\* C7: the += on the total completion counter is a load and a later store:
\* the store writes the value loaded before plus the operand, whatever
\* another call stored in between.  Two calls that did not overlap leave the
\* total at the sum of their counts; two that overlap can leave it elsewhere
\* (C7_Witness).
C7_TotalsRace ==
  /\ []((AllReturned /\ ~thr.overlapped) =>
          /\ TotalUsage.completion_tokens = SumTokens(Threads)
          /\ TotalUsage.prompt_tokens = 0)
  /\ [][\A i \in Threads :
          (thr.t[i].pc = "L81_store" /\ thr'.t[i].pc = "L82") =>
            heap'[_total_usage].completion_tokens =
              thr.t[i].loaded + heap[_cur_usage].completion_tokens]_vars

\* both calls returned, and the total completion count is not the sum of
\* the counts of the two calls
C7_Witness ==
  /\ AllReturned
  /\ thr.overlapped
  /\ TotalUsage.completion_tokens # SumTokens(Threads)

\* ---- C8
\* C8: count_tokens and remaining_tokens return 0, close returns None, no
\* accessor changes a field of the instance or a usage record, and a create
\* after close fails only when the harness call fails.
C8_AccessorsFrame ==
  /\ [][outcome'.op \in Accessors =>
          /\ outcome'.status = "return"
          /\ outcome'.op \in {"count_tokens", "remaining_tokens"} => outcome'.value = 0
          /\ outcome'.op = "close" => outcome'.value = None
          /\ _tsce' = _tsce /\ _model_info' = _model_info
          /\ _cur_usage' = _cur_usage /\ _total_usage' = _total_usage
          /\ heap' = heap]_vars
  /\ []((outcome.op = "create" /\ outcome.status = "raise") =>
          (~harness.last.ok /\ outcome.value = harness.last.err))
  /\ [][(closed /\ outcome'.op = "create") => harness'.calls = harness.calls + 1]_vars

C8_Witness ==
  /\ closed
  /\ outcome.op = "create"
  /\ outcome.status = "return"
  /\ Len(created) = 2
  /\ outcome.value.usage = created[2]

\* ---- C9
\* C9: the first step of a stream runs create once (one harness call, one
\* addition to the total) and no later step of it touches the harness or
\* the usage records; a stream that has yielded its result has yielded
\* before it one chunk per counted completion token, each token followed by
\* one space except the last, bare; after the result the stream only stops.
C9_StreamShape ==
  /\ [](gen.final # <<>> =>
          LET tokens == split(gen.result.content)
              n == heap[gen.result.usage].completion_tokens IN
          /\ gen.final = <<gen.result>>
          /\ Len(gen.chunks) = n
          /\ n = CountTokens(gen.result.content)
          /\ \A j \in 1..n :
               /\ gen.chunks[j] = IF j < n THEN tokens[j] \o <<" ">> ELSE tokens[j]
               /\ \A k \in 1..Len(tokens[j]) : tokens[j][k] \notin Whitespace
               /\ tokens[j] # <<>>)
  /\ [][outcome'.op = "__anext__" =>
          /\ (gen.pc = "start" /\ outcome'.status = "yield") =>
               /\ harness'.calls = harness.calls + 1
               /\ created' = Append(created, gen'.result.usage)
               /\ heap'[_total_usage].completion_tokens =
                    TotalUsage.completion_tokens + heap'[gen'.result.usage].completion_tokens
          /\ gen.pc # "start" =>
               /\ harness' = harness /\ heap' = heap /\ created' = created
               /\ gen'.result = gen.result
          /\ gen.pc = "final" =>
               /\ outcome'.status = "raise" /\ outcome'.value = "StopAsyncIteration"
               /\ gen'.pc = "closed"
               /\ gen'.chunks = gen.chunks /\ gen'.final = gen.final]_vars

C9_Witness ==
  /\ gen.pc = "closed"
  /\ gen.final # <<>>
  /\ gen.chunks = << <<"a", " ">>, <<"a">> >>
  /\ outcome.value = "StopAsyncIteration"

\* ---- C10
\* C10: actual_usage returns the record carried by the last result built
\* (a zero record before the first), and no step alters the record carried
\* by a result built earlier.
C10_CurrentUsageFresh ==
  /\ [](outcome.op = "actual_usage" =>
          IF created = <<>> THEN heap[outcome.value] = RequestUsage(0, 0)
          ELSE outcome.value = created[Len(created)])
  /\ [][\A i \in 1..Len(created) :
          /\ created'[i] = created[i]
          /\ heap'[created[i]] = heap[created[i]]]_vars

C10_Witness ==
  /\ outcome.op = "actual_usage"
  /\ Len(created) = 2
  /\ heap[created[1]].completion_tokens = 2
  /\ heap[created[2]].completion_tokens = 0
  /\ heap[outcome.value].completion_tokens = 0

====
